---- MODULE Spec2Model ----
(***************************************************************************)
(* The WhatsApp bridge of my-whatsmeow-project: session bootstrap, the     *)
(* inbound message handler, the mutex-guarded CSV log, the media store,    *)
(* the login-code file and the HTTP handlers.                              *)
(*                                                                         *)
(* Two builds of the server are in the repository.  build = "typed" is     *)
(* src/client.go (five-column log, nine content kinds, media download);    *)
(* build = "plain" is src/unnamed/part_000 (four-column log, text and      *)
(* extended text only).  A deployment runs exactly one of them.            *)
(*                                                                         *)
(* Strings are sequences of tokens.  The tokens COMMA, QUOTE, CR, LF and   *)
(* SP are the characters encoding/csv treats specially; every other token  *)
(* stands for a run of ordinary characters.                                *)
(***************************************************************************)
EXTENDS Integers, Sequences, FiniteSets, TLC

\* ------------------------------------------------------------------ bounds
MaxOps == 2          \* messages and HTTP requests started
MaxMsgs == 1         \* messages handled when every message shape is drawn
MaxCodes == 2        \* login codes the QR channel issues

\* ------------------------------------------------------------------ tokens
COMMA == ","
QUOTE == "DQ"
CR == "CR"
LF == "LF"
SP == "SP"

Nil == [nil |-> TRUE, v |-> <<>>]
Some(x) == [nil |-> FALSE, v |-> x]

\* ------------------------------------------------- encoding/csv, as called
\* csv.Writer.fieldNeedsQuotes
fieldNeedsQuotes(f) ==
    /\ f # <<>>
    /\ \/ \E i \in 1..Len(f) : f[i] \in {COMMA, QUOTE, CR, LF}
       \/ f[1] = SP

\* the body of a quoted field: a quote is doubled, CR and LF are written raw
RECURSIVE EscapeField(_)
EscapeField(f) ==
    IF f = <<>> THEN <<>>
    ELSE (IF Head(f) = QUOTE THEN <<QUOTE, QUOTE>> ELSE <<Head(f)>>)
         \o EscapeField(Tail(f))

WriteField(f) ==
    IF fieldNeedsQuotes(f) THEN <<QUOTE>> \o EscapeField(f) \o <<QUOTE>> ELSE f

RECURSIVE WriteFields(_)
WriteFields(rec) ==
    IF Len(rec) = 1 THEN WriteField(rec[1])
    ELSE WriteField(rec[1]) \o <<COMMA>> \o WriteFields(Tail(rec))

\* csv.Writer.Write: the fields joined by commas and ended by a newline
csvWrite(rec) == WriteFields(rec) \o <<LF>>

\* csv.Reader.readLine drops a CR that stands right before LF or right
\* before the end of the input
DroppedCR(s, i) == s[i] = CR /\ (i = Len(s) \/ s[i + 1] = LF)

\* csv.Reader.readRecord with the default settings the handler uses (no
\* LazyQuotes, no TrimLeadingSpace): one record read from position i on,
\* empty lines skipped.  st is the position in the grammar, fld the field
\* and rec the record being read; has is FALSE at the end of the input,
\* next is the position after the record
RECURSIVE readRecord(_, _, _, _, _)
readRecord(s, i, st, fld, rec) ==
    IF i > Len(s)
    THEN CASE st = "line" -> [err |-> "", has |-> FALSE, rec |-> <<>>, next |-> i]
           [] st = "quoted" -> [err |-> "ErrQuote", has |-> FALSE, rec |-> <<>>, next |-> i]
           [] OTHER -> [err |-> "", has |-> TRUE, rec |-> Append(rec, fld), next |-> i]
    ELSE IF DroppedCR(s, i) THEN readRecord(s, i + 1, st, fld, rec)
    ELSE
    LET c == s[i] IN
    CASE st = "line" ->
            IF c = LF THEN readRecord(s, i + 1, "line", <<>>, <<>>)
            ELSE IF c = QUOTE THEN readRecord(s, i + 1, "quoted", <<>>, <<>>)
            ELSE readRecord(s, i, "bare", <<>>, <<>>)
      [] st = "field" ->
            IF c = QUOTE THEN readRecord(s, i + 1, "quoted", <<>>, rec)
            ELSE readRecord(s, i, "bare", <<>>, rec)
      [] st = "bare" ->
            IF c = LF
            THEN [err |-> "", has |-> TRUE, rec |-> Append(rec, fld), next |-> i + 1]
            ELSE IF c = COMMA THEN readRecord(s, i + 1, "field", <<>>, Append(rec, fld))
            ELSE IF c = QUOTE
                 THEN [err |-> "ErrBareQuote", has |-> FALSE, rec |-> <<>>, next |-> i]
            ELSE readRecord(s, i + 1, "bare", Append(fld, c), rec)
      [] st = "quoted" ->
            IF c = QUOTE THEN readRecord(s, i + 1, "quote", fld, rec)
            ELSE readRecord(s, i + 1, "quoted", Append(fld, c), rec)
      [] st = "quote" ->
            IF c = LF
            THEN [err |-> "", has |-> TRUE, rec |-> Append(rec, fld), next |-> i + 1]
            ELSE IF c = QUOTE THEN readRecord(s, i + 1, "quoted", Append(fld, QUOTE), rec)
            ELSE IF c = COMMA THEN readRecord(s, i + 1, "field", <<>>, Append(rec, fld))
            ELSE [err |-> "ErrQuote", has |-> FALSE, rec |-> <<>>, next |-> i]

\* the loop of csv.Reader.ReadAll: records are read up to the end of the
\* input; with FieldsPerRecord = 0 every record must have as many fields
\* as the first
RECURSIVE readAll(_, _, _)
readAll(s, i, recs) ==
    LET r == readRecord(s, i, "line", <<>>, <<>>) IN
    IF r.err # "" THEN [err |-> r.err, records |-> <<>>]
    ELSE IF ~r.has THEN [err |-> "", records |-> recs]
    ELSE IF Len(recs) > 0 /\ Len(r.rec) # Len(recs[1])
         THEN [err |-> "ErrFieldCount", records |-> <<>>]
    ELSE readAll(s, r.next, Append(recs, r.rec))

\* csv.Reader.ReadAll
csvReadAll(s) == readAll(s, 1, <<>>)

\* ---------------------------------------------------------------- inputs
\* message.Info of an inbound event
Senders == {<<"u1@s.whatsapp.net">>}
InfoTimestamp == <<"2024-05-01T10:00:00Z">>

\* the fields of a waProto.Message the handler looks at; conv is the
\* conversation text (empty when unset), the others are nil or populated
EmptyMsg ==
    [conv |-> <<>>, ext |-> Nil, img |-> Nil, vid |-> Nil, doc |-> Nil,
     aud |-> Nil, con |-> Nil, loc |-> Nil]

\* message texts: with a comma and a quote, with a line break inside
QuotedText == <<"a", COMMA, QUOTE>>
BrokenText == <<"x", CR, LF, "y">>

\* a conversation, an extended text, one message per media kind, and one
\* that matches no shape
SampleMsgs ==
    {[EmptyMsg EXCEPT !.conv = QuotedText],
     [EmptyMsg EXCEPT !.ext = Some(BrokenText)],
     [EmptyMsg EXCEPT !.img = Some(<<"cap">>)],
     [EmptyMsg EXCEPT !.vid = Some(<<"cap">>)],
     [EmptyMsg EXCEPT !.doc = Some(<<"f.pdf">>)],
     [EmptyMsg EXCEPT !.aud = Some(<<>>)],
     EmptyMsg}

\* every combination of populated fields
AllMsgs ==
    [conv : {<<>>, <<"hi">>}, ext : {Nil, Some(<<>>), Some(<<"ext">>)},
     img : {Nil, Some(<<"cap">>)}, vid : {Nil, Some(<<"cap">>)},
     doc : {Nil, Some(<<"f.pdf">>)}, aud : {Nil, Some(<<>>)},
     con : {Nil, Some(<<"Ann">>)},
     loc : {Nil, Some(<<"1.500000", "2.500000">>)}]

\* ----------------------------------------------------------------- state
VARIABLES
    build,      \* "typed" (src/client.go) or "plain" (src/unnamed/part_000)
    mainpc,     \* position of main
    firstRun,   \* client.Store.ID == nil
    csvMutex,   \* holder of csvMutex, or "none"
    csvFile,    \* messages.csv: [exists, data]
    media,      \* the media tree: [dirs, complete, partial, ever]
    qrFile,     \* qrcode.txt: [exists, data]
    now,        \* time.Now()
    ops,        \* operations started so far
    pc,         \* position of each task
    loc,        \* locals of each task and the result of its last operation
    qrpc,       \* position of the QR goroutine
    qr,         \* locals of the QR goroutine
    written,    \* history: the arguments of every append that reached the file
    calls,      \* history: writeToCSV calls that have returned
    dropped     \* history: Message events dispatched to no handler

vars == <<build, mainpc, firstRun, csvMutex, csvFile, media, qrFile, now, ops,
          pc, loc, qrpc, qr, written, calls, dropped>>

mainVars == <<build, mainpc, firstRun>>
fileVars == <<csvFile, media, qrFile>>
qrVars == <<qrpc, qr>>
histVars == <<written, calls, dropped>>

\* the task of the event handler and the task of the HTTP request in flight
Inbound == "in"
HttpTasks == {"h1"}
Tasks == {Inbound} \cup HttpTasks

NoArgs == [sender |-> <<>>, kind |-> <<>>, text |-> <<>>, ts |-> <<>>]
NoResp == [status |-> 0, body |-> <<>>]

\* locals of a task at the start of an operation
Fresh(o, input) ==
    [op |-> o, in |-> input, args |-> NoArgs, path |-> <<>>, size |-> 0,
     resp |-> NoResp, sends |-> 0, rows |-> 0, logged |-> "", seen |-> 0,
     lost |-> FALSE, branch |-> "", earlier |-> FALSE]

Init ==
    /\ build \in {"typed", "plain"}
    /\ mainpc = "start"
    /\ firstRun \in BOOLEAN
    /\ csvMutex = "none"
    /\ csvFile = [exists |-> FALSE, data |-> <<>>]
    /\ media = [dirs |-> {}, complete |-> {}, partial |-> {}, ever |-> {}]
    /\ qrFile = [exists |-> FALSE, data |-> <<>>]
    /\ now = 0
    /\ ops = 0
    /\ pc = [t \in Tasks |-> "idle"]
    /\ loc = [t \in Tasks |-> Fresh("none", EmptyMsg)]
    /\ qrpc = "off"
    /\ qr = [emitted |-> 0, issued |-> 0, code |-> <<>>, rendered |-> 0,
             persisted |-> 0, saveErr |-> FALSE, posted |-> 0]
    /\ written = <<>>
    /\ calls = 0
    /\ dropped = 0

Alive == mainpc \in {"connected", "registered", "serving"}

\* a reading of the wall clock in nanoseconds: two readings are separated by
\* file or network operations, so the clock has advanced
Tick == {now + 1}
Nano(n) == <<ToString(n)>>
RFC3339(n) == <<"T" \o ToString(n)>>

\* -------------------------------------------------------------- main
\* a goroutine launched before the outcome of Connect is looked at, unlike
\* the source
QrStartedBeforeConnect(ok) == firstRun

\* the goroutine that reads the QR channel is launched on the first-run
\* path, after the check of Connect's error
QrStarted(ok) == ok /\ firstRun

\* client.Connect() on either path; on an error log.Fatalf ends the process
\* ("fatal": nothing runs any more)
MainConnect ==
    /\ mainpc = "start"
    /\ \E ok \in BOOLEAN :
         /\ mainpc' = IF ok THEN "connected" ELSE "fatal"
         /\ qrpc' = IF QrStarted(ok) THEN "wait" ELSE qrpc
    /\ UNCHANGED <<build, firstRun, csvMutex, fileVars, now, ops, pc, loc, qr, histVars>>

\* client.AddEventHandler
MainAddEventHandler ==
    /\ mainpc = "connected"
    /\ mainpc' = "registered"
    /\ UNCHANGED <<build, firstRun, csvMutex, fileVars, now, ops, pc, loc, qrVars, histVars>>

\* router.Run: serves until the process ends; when it cannot listen it
\* returns and main returns with it
MainRun ==
    /\ mainpc = "registered"
    /\ \E ok \in BOOLEAN : mainpc' = IF ok THEN "serving" ELSE "exited"
    /\ UNCHANGED <<build, firstRun, csvMutex, fileVars, now, ops, pc, loc, qrVars, histVars>>

\* the protocol client dispatches a Message event after Connect has returned
\* and before AddEventHandler has run: no handler is registered, so the
\* event reaches nobody
DispatchUnregistered ==
    /\ mainpc = "connected"
    /\ ops < MaxOps
    /\ ops' = ops + 1
    /\ dropped' = dropped + 1
    /\ UNCHANGED <<mainVars, csvMutex, fileVars, now, pc, loc, qrVars, written, calls>>

\* ------------------------------------------------ handleReceivedMessage
MediaKinds == {"Image", "Video", "Document", "Audio"}

\* a chain that tests Video before Image, unlike the source: C1 tells the
\* two orders apart
ClassifyVideoFirst(m) ==
    IF m.conv # <<>> THEN "Conversation"
    ELSE IF ~m.ext.nil THEN "ExtendedText"
    ELSE IF ~m.vid.nil THEN "Video"
    ELSE IF ~m.img.nil THEN "Image"
    ELSE IF ~m.doc.nil THEN "Document"
    ELSE IF ~m.aud.nil THEN "Audio"
    ELSE IF ~m.con.nil THEN "Contact"
    ELSE IF ~m.loc.nil THEN "Location"
    ELSE "Unknown"

\* the if / else-if chain of src/client.go
Classify(m) ==
    IF m.conv # <<>> THEN "Conversation"
    ELSE IF ~m.ext.nil THEN "ExtendedText"
    ELSE IF ~m.img.nil THEN "Image"
    ELSE IF ~m.vid.nil THEN "Video"
    ELSE IF ~m.doc.nil THEN "Document"
    ELSE IF ~m.aud.nil THEN "Audio"
    ELSE IF ~m.con.nil THEN "Contact"
    ELSE IF ~m.loc.nil THEN "Location"
    ELSE "Unknown"

\* the if / else-if chain of src/unnamed/part_000: its else branch prints
\* and writes nothing
ClassifyPlain(m) ==
    IF m.conv # <<>> THEN "Conversation"
    ELSE IF ~m.ext.nil THEN "ExtendedText"
    ELSE "Undetermined"

\* the message argument of writeToCSV for the kinds without media
TextPayload(k, m) ==
    CASE k = "Conversation" -> m.conv
      [] k = "ExtendedText" -> m.ext.v
      [] k = "Contact" -> m.con.v
      [] k = "Location" ->
            <<"Lat: ", m.loc.v[1], COMMA, SP, "Long: ", m.loc.v[2]>>
      [] k = "Unknown" -> <<"Unknown message type">>

\* the message argument of writeToCSV for the media kinds
MediaPayload(k, m, path) ==
    CASE k = "Image" -> <<"Caption: ">> \o m.img.v \o <<COMMA, SP, "Path: ">> \o path
      [] k = "Video" -> <<"Caption: ">> \o m.vid.v \o <<COMMA, SP, "Path: ">> \o path
      [] k = "Document" -> <<"FileName: ">> \o m.doc.v \o <<COMMA, SP, "Path: ">> \o path
      [] k = "Audio" -> path

\* the locals of handleReceivedMessage go away when it returns; what it
\* logged and what it appended stay as the result of the operation
Released(l) == [l EXCEPT !.in = EmptyMsg, !.size = 0]

\* the event handler calls handleReceivedMessage: classification, and for
\* the kinds without media the call of writeToCSV
Receive(M, max) ==
    /\ mainpc \in {"registered", "serving"}
    /\ pc[Inbound] = "idle"
    /\ ops < max
    /\ ops' = ops + 1
    /\ \E m \in M, s \in Senders :
         LET k == IF build = "typed" THEN Classify(m) ELSE ClassifyPlain(m)
             l0 == [Fresh("message", m) EXCEPT
                      !.branch = k,
                      !.earlier = loc[Inbound].earlier
                                  \/ loc[Inbound].logged \in {"download", "save"}]
             a == [sender |-> s, kind |-> IF build = "typed" THEN <<k>> ELSE <<>>,
                   text |-> <<>>, ts |-> InfoTimestamp]
         IN
         IF k = "Undetermined"
         THEN /\ pc' = [pc EXCEPT ![Inbound] = "idle"]
              /\ loc' = [loc EXCEPT ![Inbound] = Released(l0)]
         ELSE IF k \in MediaKinds
         THEN /\ pc' = [pc EXCEPT ![Inbound] = "download"]
              /\ loc' = [loc EXCEPT ![Inbound] = [l0 EXCEPT !.args = a]]
         ELSE /\ pc' = [pc EXCEPT ![Inbound] = "lock"]
              /\ loc' = [loc EXCEPT ![Inbound] =
                           [l0 EXCEPT !.args = [a EXCEPT !.text = TextPayload(k, m)]]]
    /\ UNCHANGED <<mainVars, csvMutex, fileVars, now, qrVars, histVars>>

\* a handler without the return after a failed Download, unlike the source
AfterDownloadNoReturn(err) == "save"

\* where the handler goes after client.Download returned
AfterDownload(err) == IF err THEN "idle" ELSE "save"

\* client.Download of the image, video, document or audio
Download ==
    /\ Alive
    /\ pc[Inbound] = "download"
    /\ \E err \in BOOLEAN :
         /\ pc' = [pc EXCEPT ![Inbound] = AfterDownload(err)]
         /\ loc' = [loc EXCEPT ![Inbound] =
                      IF err THEN [Released(@) EXCEPT !.logged = "download"] ELSE @]
    /\ UNCHANGED <<mainVars, csvMutex, fileVars, now, ops, qrVars, histVars>>

\* saveMedia: the directory and the extension of a media type
MediaType(k) ==
    CASE k = "Image" -> "image" [] k = "Video" -> "video"
      [] k = "Document" -> "document" [] k = "Audio" -> "audio"

Extension(mediaType) ==
    CASE mediaType = "image" -> ".jpg"
      [] mediaType = "video" -> ".mp4"
      [] mediaType = "audio" -> ".ogg"
      [] mediaType = "document" -> ".pdf"
      [] OTHER -> ""

Filename(mediaType, n) == <<"media/" \o mediaType \o "/">> \o Nano(n) \o <<Extension(mediaType)>>

\* a handler without the return after a failed saveMedia, unlike the source
AfterSaveNoReturn(err) == "lock"

\* where the handler goes after saveMedia returned
AfterSave(err) == IF err THEN "idle" ELSE "lock"

\* saveMedia and the caller's error check: MkdirAll, the file name from
\* the clock, WriteFile; a failed WriteFile may leave a partial file
SaveMedia ==
    /\ Alive
    /\ pc[Inbound] = "save"
    /\ LET k == loc[Inbound].branch
           mt == MediaType(k)
       IN
       \/ \* MkdirAll fails
          /\ pc' = [pc EXCEPT ![Inbound] = AfterSave(TRUE)]
          /\ loc' = [loc EXCEPT ![Inbound] = [Released(@) EXCEPT !.logged = "save"]]
          /\ UNCHANGED <<media, now>>
       \/ \E n \in Tick, res \in {"ok", "nofile", "partial"} :
            LET p == Filename(mt, n) IN
            /\ now' = n
            /\ media' =
                 CASE res = "ok" ->
                        [dirs |-> media.dirs \cup {mt},
                         complete |-> media.complete \cup {p},
                         partial |-> media.partial \ {p},
                         ever |-> media.ever \cup {p}]
                   [] res = "partial" ->
                        [media EXCEPT !.dirs = @ \cup {mt},
                                      !.complete = @ \ {p},
                                      !.partial = @ \cup {p}]
                   [] res = "nofile" -> [media EXCEPT !.dirs = @ \cup {mt}]
            /\ pc' = [pc EXCEPT ![Inbound] = AfterSave(res # "ok")]
            /\ loc' = [loc EXCEPT ![Inbound] =
                         IF res = "ok"
                         THEN [@ EXCEPT !.path = p,
                                        !.args.text = MediaPayload(k, loc[Inbound].in, p)]
                         ELSE [Released(@) EXCEPT !.logged = "save"]]
    /\ UNCHANGED <<mainVars, csvMutex, csvFile, qrFile, ops, qrVars, histVars>>

\* ------------------------------------------------------------ writeToCSV
Header ==
    IF build = "typed"
    THEN <<<<"id">>, <<"phone">>, <<"type">>, <<"text">>, <<"datetime">>>>
    ELSE <<<<"id">>, <<"phone">>, <<"text">>, <<"datetime">>>>

Row(id, a) ==
    IF build = "typed" THEN <<id, a.sender, a.kind, a.text, a.ts>>
    ELSE <<id, a.sender, a.text, a.ts>>

\* a Lock that never waits, as if writeToCSV took no mutex
CanLockUnguarded == TRUE

\* csvMutex.Lock() succeeds when nobody holds the mutex
CanLock == csvMutex = "none"

\* info.Size() == 0
NeedHeader(size) == size = 0

\* a write at offset 0, as if the file were opened without O_APPEND
WriteAtStart(data, buf) ==
    buf \o (IF Len(data) > Len(buf) THEN SubSeq(data, Len(buf) + 1, Len(data)) ELSE <<>>)

\* a write to a file opened with O_APPEND lands at the end of the file
AppendBytes(data, buf) == data \o buf

\* what a task does after writeToCSV returned: sendMessage returns nil and
\* the send handler answers 200; the inbound handler returns
Returned(l) ==
    IF l.op = "send"
    THEN [l EXCEPT !.size = 0, !.resp = [status |-> 200, body |-> <<"Message sent">>]]
    ELSE Released(l)

\* a return that leaves the mutex with its holder, as if writeToCSV had no
\* deferred Unlock
UnlockNever(holder) == holder

\* defer csvMutex.Unlock(): it runs on every return of writeToCSV
Unlock(holder) == "none"

\* csvMutex.Lock()
CsvLock(t) ==
    /\ Alive
    /\ pc[t] = "lock"
    /\ CanLock
    /\ csvMutex' = t
    /\ pc' = [pc EXCEPT ![t] = "open"]
    /\ UNCHANGED <<mainVars, fileVars, now, ops, loc, qrVars, histVars>>

\* an open that empties the file, as if O_TRUNC were among the flags
OpenTruncate(f) == [exists |-> TRUE, data |-> <<>>]

\* os.OpenFile with O_APPEND|O_CREATE|O_WRONLY creates a missing file and
\* leaves the content of an existing one alone
OpenAppend(f) == [f EXCEPT !.exists = TRUE]

\* os.OpenFile(O_APPEND|O_CREATE|O_WRONLY); on an error the deferred Unlock
\* runs and writeToCSV returns
CsvOpen(t) ==
    /\ Alive
    /\ pc[t] = "open"
    /\ \/ /\ csvFile' = OpenAppend(csvFile)
          /\ pc' = [pc EXCEPT ![t] = "stat"]
          /\ UNCHANGED <<csvMutex, loc, calls>>
       \/ /\ csvMutex' = Unlock(t)
          /\ pc' = [pc EXCEPT ![t] = "idle"]
          /\ loc' = [loc EXCEPT ![t] = Returned([loc[t] EXCEPT !.logged = "open"])]
          /\ calls' = calls + 1
          /\ UNCHANGED csvFile
    /\ UNCHANGED <<mainVars, media, qrFile, now, ops, qrVars, written, dropped>>

\* file.Stat(); on an error the deferred calls run and writeToCSV returns
CsvStat(t) ==
    /\ Alive
    /\ pc[t] = "stat"
    /\ \/ /\ loc' = [loc EXCEPT ![t].size = Len(csvFile.data)]
          /\ pc' = [pc EXCEPT ![t] = "write"]
          /\ UNCHANGED <<csvMutex, calls>>
       \/ /\ csvMutex' = Unlock(t)
          /\ pc' = [pc EXCEPT ![t] = "idle"]
          /\ loc' = [loc EXCEPT ![t] = Returned([loc[t] EXCEPT !.logged = "stat"])]
          /\ calls' = calls + 1
    /\ UNCHANGED <<mainVars, fileVars, now, ops, qrVars, written, dropped>>

\* the header when the file was empty, the record with the clock as its id,
\* then the deferred Flush, Close and Unlock.  The writer is buffered: the
\* bytes reach the file in the Flush, or not at all when a write fails
\* (a failed record write may leave the header behind).  The error of the
\* deferred Flush is dropped.
CsvWrite(t) ==
    /\ Alive
    /\ pc[t] = "write"
    /\ \E n \in Tick, res \in {"ok", "header", "record", "flush"} :
         LET hdr == IF NeedHeader(loc[t].size) THEN csvWrite(Header) ELSE <<>>
             rec == csvWrite(Row(Nano(n), loc[t].args))
         IN
         /\ res = "header" => NeedHeader(loc[t].size)
         /\ now' = IF res = "header" THEN now ELSE n
         /\ \/ /\ res = "ok"
               /\ csvFile' = [csvFile EXCEPT !.data = AppendBytes(@, hdr \o rec)]
               /\ written' = Append(written, loc[t].args)
               /\ loc' = [loc EXCEPT ![t] = Returned([loc[t] EXCEPT !.rows = @ + 1])]
            \/ /\ res = "record"
               /\ csvFile' \in {csvFile, [csvFile EXCEPT !.data = AppendBytes(@, hdr)]}
               /\ loc' = [loc EXCEPT ![t] = Returned([loc[t] EXCEPT !.logged = res])]
               /\ UNCHANGED written
            \/ /\ res = "header"
               /\ loc' = [loc EXCEPT ![t] = Returned([loc[t] EXCEPT !.logged = res])]
               /\ UNCHANGED <<csvFile, written>>
            \/ /\ res = "flush"
               /\ loc' = [loc EXCEPT ![t] = Returned([loc[t] EXCEPT !.lost = TRUE])]
               /\ UNCHANGED <<csvFile, written>>
    /\ csvMutex' = Unlock(t)
    /\ pc' = [pc EXCEPT ![t] = "idle"]
    /\ calls' = calls + 1
    /\ UNCHANGED <<mainVars, media, qrFile, ops, qrVars, dropped>>

\* -------------------------------------------------- POST /send
\* the JSON bodies a client may post: malformed, or an object whose jid and
\* text are absent, empty or set
SendBodies ==
    {[wellformed |-> FALSE, jid |-> Nil, text |-> Nil],
     [wellformed |-> TRUE, jid |-> Nil, text |-> Some(<<"hi">>)],
     [wellformed |-> TRUE, jid |-> Some(<<>>), text |-> Some(<<"hi">>)],
     [wellformed |-> TRUE, jid |-> Some(<<"77001">>), text |-> Nil],
     [wellformed |-> TRUE, jid |-> Some(<<"77001">>), text |-> Some(<<>>)],
     [wellformed |-> TRUE, jid |-> Some(<<"77001">>), text |-> Some(BrokenText)]}

\* a binding that requires the jid only, unlike the source
BindOKTextOptional(b) ==
    /\ b.wellformed
    /\ ~b.jid.nil /\ b.jid.v # <<>>

\* c.ShouldBindJSON with binding:"required" on both fields
BindOK(b) ==
    /\ b.wellformed
    /\ ~b.jid.nil /\ b.jid.v # <<>>
    /\ ~b.text.nil /\ b.text.v # <<>>

\* sendMessageHandler up to the call of sendMessage: 400 when binding fails
SendBegin(t) ==
    /\ mainpc = "serving"
    /\ pc[t] = "idle"
    /\ ops < MaxOps
    /\ ops' = ops + 1
    /\ \E b \in SendBodies :
         LET l0 == Fresh("send", b) IN
         IF BindOK(b)
         THEN /\ pc' = [pc EXCEPT ![t] = "send"]
              /\ loc' = [loc EXCEPT ![t] =
                           [l0 EXCEPT !.args = [sender |-> <<"me">>,
                                                kind |-> IF build = "typed"
                                                         THEN <<"SentMessage">> ELSE <<>>,
                                                text |-> b.text.v, ts |-> <<>>]]]
         ELSE /\ pc' = [pc EXCEPT ![t] = "idle"]
              /\ loc' = [loc EXCEPT ![t] =
                           [l0 EXCEPT !.logged = "bind",
                                      !.resp = [status |-> 400, body |-> <<"error">>]]]
    /\ UNCHANGED <<mainVars, csvMutex, fileVars, now, qrVars, histVars>>

\* a sendMessage without the return after a failed SendMessage, unlike the
\* source
AfterSendNoReturn(err) == "lock"

\* where sendMessage goes after client.SendMessage returned
AfterSend(err) == IF err THEN "idle" ELSE "lock"

\* sendMessage: client.SendMessage under the 60 s context; an error or the
\* timeout is returned to the handler, which answers 500; on success the
\* timestamp is taken and writeToCSV is called
DoSend(t) ==
    /\ Alive
    /\ pc[t] = "send"
    /\ \E res \in {"ok", "error", "timeout"}, n \in Tick :
         LET err == res # "ok" IN
         /\ pc' = [pc EXCEPT ![t] = AfterSend(err)]
         /\ now' = IF err THEN now ELSE n
         /\ loc' = [loc EXCEPT
                      ![t].sends = @ + 1,
                      ![t].logged = IF err THEN "send" ELSE @,
                      ![t].args.ts = IF err THEN @ ELSE RFC3339(n),
                      ![t].resp = IF err THEN [status |-> 500, body |-> <<"error">>]
                                  ELSE @]
    /\ UNCHANGED <<mainVars, csvMutex, fileVars, ops, qrVars, histVars>>

\* --------------------------------------------------------- GET /csv
\* getCSVContentsHandler: os.Open, csv ReadAll, 500 on either error
GetCsv(t) ==
    /\ mainpc = "serving"
    /\ pc[t] = "idle"
    /\ ops < MaxOps
    /\ ops' = ops + 1
    /\ \E openErr \in BOOLEAN :
         LET r == csvReadAll(csvFile.data)
             l0 == [Fresh("csv", EmptyMsg) EXCEPT !.seen = Len(written)]
         IN
         /\ ~csvFile.exists => openErr
         /\ loc' = [loc EXCEPT ![t] =
                      IF openErr
                      THEN [l0 EXCEPT !.logged = "open",
                              !.resp = [status |-> 500, body |-> <<"Failed to open CSV file">>]]
                      ELSE IF r.err # ""
                      THEN [l0 EXCEPT !.logged = "read",
                              !.resp = [status |-> 500, body |-> <<"Failed to read CSV file">>]]
                      ELSE [l0 EXCEPT !.resp = [status |-> 200, body |-> r.records]]]
    /\ UNCHANGED <<mainVars, csvMutex, fileVars, now, pc, qrVars, histVars>>

\* ------------------------------------------------- the login code file
\* the code of the k-th code event; codes differ in length
CodeOf(k) == [i \in 1..(IF k % 2 = 1 THEN 3 ELSE 2) |-> k]

\* an open that keeps the old content, as if the file were opened without
\* O_TRUNC
CreateNoTruncate(old) == old

\* os.Create truncates the file
CreateFile(old) == <<>>

\* file.WriteString on the fresh handle: the bytes go to offset 0
WriteAt0(data, bytes) ==
    bytes \o (IF Len(data) > Len(bytes) THEN SubSeq(data, Len(bytes) + 1, Len(data))
              ELSE <<>>)

\* the latest code event went through saveQRCode without an error
SavedLatest == qr.issued > 0 /\ qrpc \notin {"create", "write"} /\ ~qr.saveErr

\* the protocol client puts a "code" event on the QR channel; it does so on
\* its own timer, whatever the goroutine that reads the channel is doing
QrEmit ==
    /\ Alive
    /\ qrpc \notin {"off", "closed"}
    /\ qr.emitted < MaxCodes
    /\ qr' = [qr EXCEPT !.emitted = @ + 1]
    /\ UNCHANGED <<mainVars, csvMutex, fileVars, now, ops, pc, loc, qrpc, histVars>>

\* the range loop takes the next "code" event from the QR channel and
\* renders it to the terminal
QrCode ==
    /\ Alive
    /\ qrpc = "wait"
    /\ qr.issued < qr.emitted
    /\ qr' = [qr EXCEPT !.issued = @ + 1, !.code = CodeOf(qr.issued + 1),
                        !.rendered = qr.issued + 1, !.saveErr = FALSE]
    /\ qrpc' = "create"
    /\ UNCHANGED <<mainVars, csvMutex, fileVars, now, ops, pc, loc, histVars>>

\* saveQRCode: os.Create; on an error it logs and returns
QrCreate ==
    /\ Alive
    /\ qrpc = "create"
    /\ \/ /\ qrFile' = [exists |-> TRUE, data |-> CreateFile(qrFile.data)]
          /\ qrpc' = "write"
          /\ UNCHANGED qr
       \/ /\ qr' = [qr EXCEPT !.saveErr = TRUE]
          /\ qrpc' = "post"
          /\ UNCHANGED qrFile
    /\ UNCHANGED <<mainVars, csvMutex, csvFile, media, now, ops, pc, loc, histVars>>

\* saveQRCode: file.WriteString and the deferred Close; a failed write may
\* have written a part of the code
QrWrite ==
    /\ Alive
    /\ qrpc = "write"
    /\ \/ /\ qrFile' = [qrFile EXCEPT !.data = WriteAt0(@, qr.code)]
          /\ qr' = [qr EXCEPT !.persisted = qr.issued]
       \/ \E j \in 0..(Len(qr.code) - 1) :
            /\ qrFile' = [qrFile EXCEPT !.data = WriteAt0(@, SubSeq(qr.code, 1, j))]
            /\ qr' = [qr EXCEPT !.saveErr = TRUE]
    /\ qrpc' = "post"
    /\ UNCHANGED <<mainVars, csvMutex, csvFile, media, now, ops, pc, loc, histVars>>

\* sendQRCodeToAPI: http.Post with the default client, which has no
\* timeout; every outcome that returns is only logged
QrPost ==
    /\ Alive
    /\ qrpc = "post"
    /\ \E res \in {"ok", "status", "error", "hang"} :
         /\ qrpc' = IF res = "hang" THEN "hung" ELSE "wait"
         /\ qr' = [qr EXCEPT !.posted = IF res = "ok" THEN qr.issued ELSE @]
    /\ UNCHANGED <<mainVars, csvMutex, fileVars, now, ops, pc, loc, histVars>>

\* an event other than "code" is logged; the channel is closed after it
QrClose ==
    /\ Alive
    /\ qrpc = "wait"
    /\ qr.issued = qr.emitted
    /\ qrpc' = "closed"
    /\ UNCHANGED <<mainVars, csvMutex, fileVars, now, ops, pc, loc, qr, histVars>>

\* generateQRTextHandler: os.ReadFile, 500 on an error
GetQrText(t) ==
    /\ mainpc = "serving"
    /\ pc[t] = "idle"
    /\ ops < MaxOps
    /\ ops' = ops + 1
    /\ \E readErr \in BOOLEAN :
         LET l0 == [Fresh("qrtext", EmptyMsg) EXCEPT
                      !.seen = IF SavedLatest THEN qr.issued ELSE 0]
         IN
         /\ ~qrFile.exists => readErr
         /\ loc' = [loc EXCEPT ![t] =
                      IF readErr
                      THEN [l0 EXCEPT !.logged = "read",
                              !.resp = [status |-> 500,
                                        body |-> <<"Failed to generate QR code">>]]
                      ELSE [l0 EXCEPT !.resp = [status |-> 200, body |-> qrFile.data]]]
    /\ UNCHANGED <<mainVars, csvMutex, fileVars, now, pc, qrVars, histVars>>

\* ---------------------------------------------------------- specifications
\* The log: main, the inbound handler, POST /send and GET /csv running
\* concurrently on a resumed session.
Next ==
    \/ MainConnect
    \/ MainAddEventHandler
    \/ MainRun
    \/ DispatchUnregistered
    \/ Receive(SampleMsgs, MaxOps)
    \/ Download
    \/ SaveMedia
    \/ \E t \in Tasks : CsvLock(t)
    \/ \E t \in Tasks : CsvOpen(t)
    \/ \E t \in Tasks : CsvStat(t)
    \/ \E t \in Tasks : CsvWrite(t)
    \/ \E t \in HttpTasks : SendBegin(t)
    \/ \E t \in HttpTasks : DoSend(t)
    \/ \E t \in HttpTasks : GetCsv(t)

InitLog == Init /\ ~firstRun

Spec == InitLog /\ [][Next]_vars

\* The inbound handler alone, over every combination of message fields.
NextInbound ==
    \/ MainConnect
    \/ MainAddEventHandler
    \/ MainRun
    \/ Receive(AllMsgs, MaxMsgs)
    \/ Download
    \/ SaveMedia
    \/ CsvLock(Inbound)
    \/ CsvOpen(Inbound)
    \/ CsvStat(Inbound)
    \/ CsvWrite(Inbound)

SpecInbound == InitLog /\ [][NextInbound]_vars

\* The log under the scheduling the Go runtime gives: a goroutine that can
\* run does run (weak fairness of the steps inside writeToCSV), and a
\* goroutine waiting in Lock gets the mutex when it is released again and
\* again (strong fairness: sync.Mutex hands over to a starved waiter).
Fairness ==
    \A t \in Tasks :
        /\ SF_vars(CsvLock(t))
        /\ WF_vars(CsvOpen(t))
        /\ WF_vars(CsvStat(t))
        /\ WF_vars(CsvWrite(t))

\* the messages of the fair specification: a text and a media message (what
\* happens inside writeToCSV does not depend on the content)
FairMsgs ==
    {[EmptyMsg EXCEPT !.conv = QuotedText],
     [EmptyMsg EXCEPT !.img = Some(<<"cap">>)]}

NextFair ==
    \/ MainConnect
    \/ MainAddEventHandler
    \/ MainRun
    \/ DispatchUnregistered
    \/ Receive(FairMsgs, MaxOps)
    \/ Download
    \/ SaveMedia
    \/ \E t \in Tasks : CsvLock(t)
    \/ \E t \in Tasks : CsvOpen(t)
    \/ \E t \in Tasks : CsvStat(t)
    \/ \E t \in Tasks : CsvWrite(t)
    \/ \E t \in HttpTasks : SendBegin(t)
    \/ \E t \in HttpTasks : DoSend(t)
    \/ \E t \in HttpTasks : GetCsv(t)

SpecFair == InitLog /\ [][NextFair]_vars /\ Fairness

\* The login code: main, the QR goroutine and GET /qr/text.
NextQR ==
    \/ MainConnect
    \/ MainAddEventHandler
    \/ MainRun
    \/ QrEmit
    \/ QrCode
    \/ QrCreate
    \/ QrWrite
    \/ QrPost
    \/ QrClose
    \/ \E t \in HttpTasks : GetQrText(t)

SpecQR == Init /\ [][NextQR]_vars

\* ------------------------------------------------------------ properties
\* what GET /csv would parse from the log as it is now
LogRows == csvReadAll(csvFile.data)
DataOf(r) == IF r.records = <<>> THEN <<>> ELSE Tail(r.records)
DataRows == DataOf(LogRows)

InFlight(t) == pc[t] \in {"download", "save", "lock", "open", "stat", "write"}
AllIdle == \A t \in Tasks : pc[t] = "idle"

\* the precedence order of the content kinds
KindOrder ==
    <<"Conversation", "ExtendedText", "Image", "Video", "Document", "Audio",
      "Contact", "Location">>

Matches(m, k) ==
    CASE k = "Conversation" -> m.conv # <<>>
      [] k = "ExtendedText" -> ~m.ext.nil
      [] k = "Image" -> ~m.img.nil
      [] k = "Video" -> ~m.vid.nil
      [] k = "Document" -> ~m.doc.nil
      [] k = "Audio" -> ~m.aud.nil
      [] k = "Contact" -> ~m.con.nil
      [] k = "Location" -> ~m.loc.nil

Earliest(m) ==
    IF \E i \in 1..Len(KindOrder) : Matches(m, KindOrder[i])
    THEN KindOrder[CHOOSE i \in 1..Len(KindOrder) :
                     /\ Matches(m, KindOrder[i])
                     /\ \A j \in 1..(i - 1) : ~Matches(m, KindOrder[j])]
    ELSE "Unknown"

\* C1: whenever the inbound handler writes a record for a message, the kind
\* of that record is the earliest kind of the order Text, ExtendedText, Image,
\* Video, Document, Audio, Contact, Location whose predicate holds of the
\* message, and Unknown only when none holds; the row that reaches the log
\* carries that kind.
C1_KindIsEarliestMatch ==
    LET l == loc[Inbound] IN
    /\ (l.op = "message" /\ InFlight(Inbound)) =>
          /\ l.branch = Earliest(l.in)
          /\ build = "typed" => l.args.kind = <<Earliest(l.in)>>
    /\ (l.op = "message" /\ pc[Inbound] = "idle" /\ l.rows = 1 /\ build = "typed") =>
          \A r \in {LogRows} :
          LET d == DataOf(r) IN
          /\ r.err = ""
          /\ d # <<>>
          /\ d[Len(d)][3] = <<l.branch>>

\* C1 witness: a message that is both an extended text and an image (and
\* more) is about to be written as ExtendedText
C1_Witness ==
    LET l == loc[Inbound] IN
    /\ build = "typed" /\ pc[Inbound] = "write"
    /\ l.in.conv = <<>> /\ ~l.in.ext.nil /\ ~l.in.img.nil /\ ~l.in.loc.nil
    /\ l.args.kind = <<"ExtendedText">>

\* C2: a handled message whose download and save (if any) did not fail has
\* grown the log by exactly one record.
C2_OneRecordPerMessage ==
    LET l == loc[Inbound] IN
    (l.op = "message" /\ pc[Inbound] = "idle" /\ l.logged \notin {"download", "save"})
        => l.rows = 1

\* C3: a failed download or save ends the handling of that message at
\* once: the handler returns without calling writeToCSV, the log and the
\* mutex are untouched, nothing is retried or answered, and a message
\* handled later is appended as usual (its row is in the log unless its
\* own append meets a file error).
C3_State ==
    LET l == loc[Inbound] IN
    /\ (l.op = "message" /\ l.logged \in {"download", "save"}) =>
          /\ pc[Inbound] = "idle"
          /\ l.rows = 0
          /\ csvMutex # Inbound
          /\ l.resp = NoResp
    /\ (l.op = "message" /\ l.earlier /\ pc[Inbound] = "idle" /\ l.logged = ""
        /\ ~l.lost /\ l.branch # "Undetermined") => l.rows = 1

C3_Step ==
    (loc'[Inbound] # loc[Inbound] /\ loc'[Inbound].logged \in {"download", "save"}) =>
        /\ pc[Inbound] \in {"download", "save"}
        /\ pc'[Inbound] = "idle"
        /\ csvFile' = csvFile
        /\ written' = written
        /\ calls' = calls

C3_AbortOnMediaFailure == [](C3_State) /\ [][C3_Step]_vars

\* C3 witness: after an aborted message, a later message was appended
C3_Witness ==
    /\ loc[Inbound].earlier
    /\ pc[Inbound] = "idle"
    /\ loc[Inbound].rows = 1

\* the path a media record names: the last three tokens of its text
PathOf(text) ==
    IF Len(text) >= 3 THEN SubSeq(text, Len(text) - 2, Len(text)) ELSE <<>>

\* C4: every Image, Video, Document or Audio row of the log names a path
\* that saveMedia has written completely, and the handler reaches writeToCSV
\* for a media message only with such a path.
C4_MediaWrittenBeforeRecord ==
    build = "typed" =>
        \A r \in {LogRows} :
        LET d == DataOf(r) IN
        /\ r.err = ""
        /\ \A i \in 1..Len(d) :
              d[i][3][1] \in MediaKinds =>
                  PathOf(d[i][4]) \in (media.ever \cap media.complete)
        /\ (pc[Inbound] \in {"lock", "open", "stat", "write"}
            /\ loc[Inbound].branch \in MediaKinds) =>
                  loc[Inbound].path \in media.ever

\* C4 witness: the log holds a media row
C4_Witness ==
    /\ build = "typed"
    /\ written # <<>>
    /\ \E d \in {DataRows} : \E i \in 1..Len(d) : d[i][3][1] \in MediaKinds

C7_RoundTrip ==
    \A t \in HttpTasks :
        (loc[t].op = "csv" /\ loc[t].resp.status = 200) =>
            \A i \in 1..loc[t].seen :
                \E j \in 1..Len(loc[t].resp.body) :
                    Tail(loc[t].resp.body[j]) = Tail(Row(<<>>, written[i]))

\* a body that lacks a jid or a text
Invalid(b) ==
    \/ ~b.wellformed
    \/ b.jid.nil \/ b.jid.v = <<>>
    \/ b.text.nil \/ b.text.v = <<>>

\* C8: a POST /send whose jid or text is missing or empty is answered 400
\* in the same step, without a send call and without touching the log.
C8_State ==
    \A t \in HttpTasks :
        (loc[t].op = "send" /\ Invalid(loc[t].in)) =>
            /\ pc[t] = "idle"
            /\ loc[t].resp.status = 400
            /\ loc[t].sends = 0
            /\ loc[t].rows = 0
            /\ loc[t].args = NoArgs

C8_Step ==
    \A t \in HttpTasks :
        (loc'[t] # loc[t] /\ loc'[t].op = "send" /\ Invalid(loc'[t].in)) =>
            /\ csvFile' = csvFile
            /\ written' = written
            /\ csvMutex' = csvMutex

C8_InvalidSendRejected == [](C8_State) /\ [][C8_Step]_vars

\* C8 witness: a request with an empty text was answered 400
C8_Witness ==
    \E t \in HttpTasks :
        /\ loc[t].op = "send"
        /\ loc[t].in.wellformed /\ ~loc[t].in.jid.nil /\ loc[t].in.jid.v # <<>>
        /\ loc[t].in.text = Some(<<>>)
        /\ loc[t].resp.status = 400

C11_ForwardNeverHoldsBackCode ==
    /\ qr.rendered = qr.issued
    /\ qrpc \in {"create", "write"} => qr.persisted < qr.issued /\ qr.posted < qr.issued
    /\ qrpc = "post" => qr.posted < qr.issued /\ (qr.persisted = qr.issued \/ qr.saveErr)
    /\ ~(qrpc = "hung" /\ qr.rendered < qr.emitted)

IsPrefix(a, b) == Len(a) <= Len(b) /\ SubSeq(b, 1, Len(a)) = a

C13_State ==
    mainpc = "fatal" =>
        /\ qrpc = "off"
        /\ qr.issued = 0 /\ qr.rendered = 0 /\ qr.persisted = 0 /\ qr.posted = 0
        /\ ~qrFile.exists
        /\ ops = 0
        /\ \A t \in Tasks : pc[t] = "idle" /\ loc[t].op = "none"

C13_Step == mainpc = "fatal" => UNCHANGED vars

C13_FailedConnectExits == [](C13_State) /\ [][C13_Step]_vars

\* C13 witness: Connect has failed on the first-run path
C13_Witness == mainpc = "fatal" /\ firstRun

\* C14: every Message event the protocol client has dispatched since
\* Connect returned was passed to handleReceivedMessage; none was
\* dispatched while no handler was registered.
C14_EveryEventHandled == dropped = 0

\* C15: writeToCSV gives the mutex back on every return.  The mutex is
\* held exactly by a task that is between Lock and the return of
\* writeToCSV, so a task waiting in Lock never waits for a task that has
\* returned; and under fair scheduling every task that waits in Lock goes
\* on to return from writeToCSV, unless the process ends first.
C15_State ==
    /\ csvMutex \in Tasks \cup {"none"}
    /\ \A t \in Tasks : csvMutex = t <=> pc[t] \in {"open", "stat", "write"}
    /\ (Alive /\ \E t \in Tasks : pc[t] = "lock") =>
          \/ csvMutex = "none"
          \/ \E u \in Tasks : csvMutex = u /\ pc[u] \in {"open", "stat", "write"}

C15_LockAlwaysReleased ==
    /\ [](C15_State)
    /\ \A t \in Tasks : (pc[t] = "lock") ~> (pc[t] = "idle" \/ ~Alive)

\* C15 witness: an append of one task has failed on a file error and
\* returned, and the other task holds the mutex after it
C15_Witness ==
    \E t, u \in Tasks :
        /\ t # u
        /\ pc[t] = "idle"
        /\ loc[t].logged \in {"open", "stat", "header", "record"}
        /\ csvMutex = u
        /\ calls > 0

====
